---------------------------- MODULE Spec2Model ----------------------------
(***************************************************************************)
(* Model of the rating store and the hybrid recommender of                 *)
(* backend/app/services/recommendation_service.py, and of the study        *)
(* decision of backend/app/services/study_decision_service.py.             *)
(*                                                                         *)
(* Numbers.  Ratings are the integers the star widget sends.  Values the   *)
(* code keeps with one decimal (average_rating) are held in tenths.  The   *)
(* scores and similarities that rank the recommendations are held in       *)
(* thousandths, rounded down.  A _cosine_similarity call on its own and    *)
(* the study decision (scores, confidence, duration) are computed in       *)
(* binary64, bit for bit.  Time is counted in days.                        *)
(*                                                                         *)
(* Specifications.  Spec and SpecSeq: rate calls, interleaved and one at a *)
(* time.  SpecRec: recommendation and trending requests on a filled store. *)
(* SpecSim: _cosine_similarity calls.  SpecStudy: study decisions.         *)
(***************************************************************************)
EXTENDS Integers, Sequences, FiniteSets, Bags, TLC

None == "None"

(* ---------------------------- bounds --------------------------------- *)

\* rate calls started in one behaviour when requests interleave
MaxCalls == 2

\* rate calls started in one behaviour when requests run one at a time
MaxSeqCalls == 3

\* the clock stops advancing at this day
MaxNow == 12

\* days by which one Tick advances the clock
TickDays == 4

(* ------------------------- program constants ------------------------- *)

MinRating == 1
MaxRating == 5

\* self.min_ratings_for_recommendation
MinRatingsForRecommendation == 3

\* similar_users[:10]
TopSimilarUsers == 10

\* .limit(10) of the content-based query
ContentLimit == 10

\* get_trending_resources(module_id, limit=5) inside the recommender
RecommenderTrendingLimit == 5

\* timedelta(days=7)
TrendingWindowDays == 7

\* thousandths, the unit of scores and similarities
ScoreScale == 10 * 100

(* ---------------------------- input sets ----------------------------- *)

Procs == {"p1", "p2"}

Users == {"u1", "u2", "u3"}

\* ids that have a document in the resources collection, in natural order
ResourceOrder == <<"r1", "r2", "r3", "r4">>

DocIds == {ResourceOrder[i] : i \in 1..Len(ResourceOrder)}

\* an id no document carries: rate_resource accepts any string
UnknownId == "r0"

\* the module of each seeded resource document
SeedModule == [id \in DocIds |-> IF id = "r2" THEN "m2" ELSE "m1"]

\* the ratings rate calls are made with: two valid ones, one below and one
\* above the range
RateRatings == {0, 4, 5, 6}

VARIABLES
    connected,      \* MongoDB.client / MongoDB.db are set
    storeUp,        \* the server answers; a request to it raises otherwise
    now,            \* datetime.utcnow(), in days
    user_ratings,   \* db.user_ratings: a bag of rating documents
    resources,      \* db.resources: id -> document
    pc,             \* where each rate_resource call stands
    call,           \* its arguments and rating_doc
    agg,            \* its local `result` of the aggregation
    result,         \* what it returned or raised
    calls,          \* rate calls started so far
    lastRated,      \* per (user, resource): rating of the last call that succeeded
    recommendation, \* the last get_recommendations_for_user call and its outcome
    trendingCall,   \* the last get_trending_resources call and its outcome
    similarityCall, \* the last _cosine_similarity call and its result
    decisionCall    \* the last StudyDecisionService.get_recommendation call

vars == <<connected, storeUp, now, user_ratings, resources, pc, call, agg,
          result, calls, lastRated, recommendation, trendingCall,
          similarityCall, decisionCall>>

(* ------------------------- collection helpers ------------------------ *)

RECURSIVE SumOver(_, _)
\* sum of f[x] over the finite set S
SumOver(S, f) ==
    IF S = {} THEN 0
    ELSE LET x == CHOOSE y \in S : TRUE
         IN  f[x] + SumOver(S \ {x}, f)

\* the rating documents {"resource_id": resource_id} matches
OfResource(coll, resource_id) ==
    {d \in BagToSet(coll) : d.resource_id = resource_id}

\* the rating documents {"user_id": user_id} matches
OfUser(coll, user_id) ==
    {d \in BagToSet(coll) : d.user_id = user_id}

\* the rating documents {"user_id": user_id, "resource_id": resource_id} matches
OfPair(coll, user_id, resource_id) ==
    {d \in BagToSet(coll) : d.user_id = user_id /\ d.resource_id = resource_id}

\* number of documents among the matched ones M, copies counted
CountOf(coll, M) == SumOver(M, [d \in M |-> CopiesIn(d, coll)])

\* update_one(filter, {"$set": doc}, upsert=True) where the filter matches
\* M: the first matching document is overwritten, a new one is inserted
\* when nothing matches
UpsertOne(coll, M, doc) ==
    IF M = {} THEN coll (+) SetToBag({doc})
    ELSE LET old == CHOOSE d \in M : TRUE
         IN  (coll (-) SetToBag({old})) (+) SetToBag({doc})

\* the empty list of groups
NoGroup == [sum |-> 0, count |-> 0]

\* the $match/$group pipeline: no group when no rating matches, else the
\* group's count and the sum whose quotient by the count is "$avg"
AggregateRatings(coll, resource_id) ==
    LET M == OfResource(coll, resource_id)
        n == CountOf(coll, M)
        s == SumOver(M, [d \in M |-> d.rating * CopiesIn(d, coll)])
    IN  IF M = {} THEN NoGroup ELSE [sum |-> s, count |-> n]

\* the mean cut off after the first decimal instead of rounded
Round1Floor(sum, count) == (10 * sum) \div count

\* round(sum / count, 1) in tenths: Python rounds the exact value of the
\* double, and the only ties that are doubles (x.25, x.75) go to the even digit
Round1(sum, count) ==
    LET t == (10 * sum) \div count
        r == (10 * sum) % count
    IN  IF 2 * r > count THEN t + 1
        ELSE IF 2 * r < count THEN t
        ELSE IF t % 2 = 0 THEN t ELSE t + 1

\* resources.update_one({"id": id}, {"$set": ...}): no upsert
SetAggregates(coll, id, average, count) ==
    IF id \in DOMAIN coll
    THEN [coll EXCEPT ![id].average_rating = average, ![id].rating_count = count]
    ELSE coll

(* ------------------------------ get_db ------------------------------- *)

GetDb == IF connected THEN "db" ELSE None

(* --------------------------- rate_resource --------------------------- *)

NoCall == [user_id |-> None, resource_id |-> None, module_id |-> None,
           rating |-> 0, updated_at |-> 0]

\* the range check without its upper end
ValidRatingNoUpper(rating) == ~(rating < MinRating)

ValidRating(rating) == ~(rating < MinRating \/ rating > MaxRating)

\* what the router answers for each outcome of the service call
HttpStatus(res) ==
    IF res = "success" THEN 200
    ELSE IF res \in {"error_db", "error_rating"} THEN 400
    ELSE 500

Finish(p, res) ==
    /\ pc' = [pc EXCEPT ![p] = "done"]
    /\ result' = [result EXCEPT ![p] = res]

\* entry up to the first request to the store
RateStart(p, user_id, resource_id, rating, module_id) ==
    /\ pc[p] = "idle"
    /\ calls' = calls + 1
    /\ call' = [call EXCEPT ![p] = [user_id |-> user_id,
                                    resource_id |-> resource_id,
                                    module_id |-> module_id,
                                    rating |-> rating,
                                    updated_at |-> now]]
    /\ IF GetDb = None THEN Finish(p, "error_db")
       ELSE IF ~ValidRating(rating) THEN Finish(p, "error_rating")
       ELSE /\ pc' = [pc EXCEPT ![p] = "upsert"]
            /\ UNCHANGED result
    /\ UNCHANGED <<connected, storeUp, now, user_ratings, resources, agg, lastRated, recommendation,
                   trendingCall, similarityCall, decisionCall>>

\* the upsert with its exception swallowed: the call goes on without a write
RateUpsertSwallow(p) ==
    /\ pc[p] = "upsert"
    /\ user_ratings' = IF storeUp
                       THEN UpsertOne(user_ratings,
                                      OfPair(user_ratings, call[p].user_id,
                                             call[p].resource_id),
                                      call[p])
                       ELSE user_ratings
    /\ pc' = [pc EXCEPT ![p] = "aggregate"]
    /\ UNCHANGED <<connected, storeUp, now, resources, call, agg, calls, lastRated,
                   recommendation, result,
                   trendingCall, similarityCall, decisionCall>>

\* await db.user_ratings.update_one(..., upsert=True)
RateUpsert(p) ==
    /\ pc[p] = "upsert"
    /\ IF storeUp
       THEN /\ user_ratings' = UpsertOne(user_ratings,
                                         OfPair(user_ratings, call[p].user_id,
                                                call[p].resource_id),
                                         call[p])
            /\ pc' = [pc EXCEPT ![p] = "aggregate"]
            /\ UNCHANGED result
       ELSE /\ Finish(p, "raised")
            /\ UNCHANGED user_ratings
    /\ UNCHANGED <<connected, storeUp, now, resources, call, agg, calls, lastRated, recommendation,
                   trendingCall, similarityCall, decisionCall>>

\* _update_resource_average: await db.user_ratings.aggregate(pipeline).to_list(1)
RateAggregate(p) ==
    /\ pc[p] = "aggregate"
    /\ IF storeUp
       THEN LET res == AggregateRatings(user_ratings, call[p].resource_id)
            IN  /\ agg' = [agg EXCEPT ![p] = res]
                /\ pc' = [pc EXCEPT ![p] = IF res = NoGroup THEN "return" ELSE "write"]
                /\ UNCHANGED result
       ELSE /\ Finish(p, "raised")
            /\ UNCHANGED agg
    /\ UNCHANGED <<connected, storeUp, now, user_ratings, resources, call, calls, lastRated, recommendation,
                   trendingCall, similarityCall, decisionCall>>

\* the resource write that adds one to rating_count instead of storing the
\* count of the rows
RateWriteIncrement(p) ==
    /\ pc[p] = "write"
    /\ IF storeUp
       THEN /\ resources' =
                 LET id == call[p].resource_id
                 IN  IF id \in DOMAIN resources
                     THEN SetAggregates(resources, id,
                                        Round1(agg[p].sum, agg[p].count),
                                        resources[id].rating_count + 1)
                     ELSE resources
            /\ pc' = [pc EXCEPT ![p] = "return"]
            /\ UNCHANGED result
       ELSE /\ Finish(p, "raised")
            /\ UNCHANGED resources
    /\ UNCHANGED <<connected, storeUp, now, user_ratings, call, agg, calls, lastRated, recommendation,
                   trendingCall, similarityCall, decisionCall>>

\* _update_resource_average: await db.resources.update_one(...)
RateWrite(p) ==
    /\ pc[p] = "write"
    /\ IF storeUp
       THEN /\ resources' = SetAggregates(resources, call[p].resource_id,
                                          Round1(agg[p].sum, agg[p].count),
                                          agg[p].count)
            /\ pc' = [pc EXCEPT ![p] = "return"]
            /\ UNCHANGED result
       ELSE /\ Finish(p, "raised")
            /\ UNCHANGED resources
    /\ UNCHANGED <<connected, storeUp, now, user_ratings, call, agg, calls, lastRated, recommendation,
                   trendingCall, similarityCall, decisionCall>>

\* return {"success": True, "rating": rating}
RateReturn(p) ==
    /\ pc[p] = "return"
    /\ Finish(p, "success")
    /\ lastRated' = [lastRated EXCEPT ![<<call[p].user_id, call[p].resource_id>>]
                                        = call[p].rating]
    /\ UNCHANGED <<connected, storeUp, now, user_ratings, resources, call, agg, calls, recommendation,
                   trendingCall, similarityCall, decisionCall>>

\* the response has gone out; the slot is free for the next request
RateEnd(p) ==
    /\ pc[p] = "done"
    /\ pc' = [pc EXCEPT ![p] = "idle"]
    /\ result' = [result EXCEPT ![p] = None]
    /\ call' = [call EXCEPT ![p] = NoCall]
    /\ agg' = [agg EXCEPT ![p] = NoGroup]
    /\ UNCHANGED <<connected, storeUp, now, user_ratings, resources, calls, lastRated, recommendation,
                   trendingCall, similarityCall, decisionCall>>

(* ------------------------- sequence helpers -------------------------- *)

Min(a, b) == IF a < b THEN a ELSE b

Max(a, b) == IF a > b THEN a ELSE b

\* the orders in which the elements of a finite set can be listed
Perms(S) ==
    LET n == Cardinality(S)
    IN  {f \in [1..n -> S] : \A i, j \in 1..n : i # j => f[i] # f[j]}

\* the elements of a list
Range(list) == {list[i] : i \in 1..Len(list)}

RECURSIVE InsertDesc(_, _, _)
\* x put behind every element of the sorted list whose key is not smaller;
\* key maps the elements to their keys
InsertDesc(sorted, x, key) ==
    IF sorted = <<>> THEN <<x>>
    ELSE IF key[Head(sorted)] >= key[x]
         THEN <<Head(sorted)>> \o InsertDesc(Tail(sorted), x, key)
         ELSE <<x>> \o sorted

RECURSIVE SortDesc(_, _)
\* list.sort(key=..., reverse=True): stable, equal keys keep their order
SortDesc(list, key) ==
    IF list = <<>> THEN <<>>
    ELSE LET n == Len(list)
         IN  InsertDesc(SortDesc(SubSeq(list, 1, n - 1), key), list[n], key)

RECURSIVE SelectIn(_, _)
\* the elements of a list that lie in a set, in order
SelectIn(list, S) ==
    IF list = <<>> THEN <<>>
    ELSE IF Head(list) \in S THEN <<Head(list)>> \o SelectIn(Tail(list), S)
         ELSE SelectIn(Tail(list), S)

\* list[:limit]
Slice(list, limit) ==
    IF limit >= 0 THEN SubSeq(list, 1, Min(limit, Len(list)))
    ELSE SubSeq(list, 1, Max(0, Len(list) + limit))

(* ------------------------- binary64 arithmetic ----------------------- *)
\* Python floats are IEEE 754 binary64 numbers: every operation gives the
\* exact result rounded to 53 significant bits, a tie going to the even
\* one.  A positive float is the record [m |-> M, e |-> E] of value
\* M * 2^E with 2^52 <= M < 2^53; M is a natural number held as the
\* sequence of its base-2^15 digits, lowest first, without leading zeros.

LimbBits == 15

LimbBase == 2^LimbBits

RECURSIVE BigOf(_)
\* the digits of a natural number
BigOf(n) == IF n = 0 THEN <<>> ELSE <<n % LimbBase>> \o BigOf(n \div LimbBase)

RECURSIVE BigTrim(_)
\* without the leading zeros
BigTrim(a) ==
    IF a = <<>> THEN <<>>
    ELSE IF a[Len(a)] = 0 THEN BigTrim(SubSeq(a, 1, Len(a) - 1))
         ELSE a

RECURSIVE BigToInt(_)
\* the number of a short digit sequence
BigToInt(a) == IF a = <<>> THEN 0 ELSE Head(a) + LimbBase * BigToInt(Tail(a))

RECURSIVE BigAddC(_, _, _)
BigAddC(a, b, carry) ==
    IF a = <<>> /\ b = <<>> THEN (IF carry = 0 THEN <<>> ELSE <<carry>>)
    ELSE LET x == IF a = <<>> THEN 0 ELSE Head(a)
             y == IF b = <<>> THEN 0 ELSE Head(b)
             s == x + y + carry
         IN  <<s % LimbBase>> \o BigAddC(IF a = <<>> THEN <<>> ELSE Tail(a),
                                         IF b = <<>> THEN <<>> ELSE Tail(b),
                                         s \div LimbBase)

BigAdd(a, b) == BigAddC(a, b, 0)

RECURSIVE BigSubB(_, _, _)
BigSubB(a, b, borrow) ==
    IF a = <<>> THEN <<>>
    ELSE LET y == IF b = <<>> THEN 0 ELSE Head(b)
             d == Head(a) - y - borrow
         IN  <<d % LimbBase>> \o BigSubB(Tail(a),
                                         IF b = <<>> THEN <<>> ELSE Tail(b),
                                         IF d < 0 THEN 1 ELSE 0)

\* a - b for a >= b
BigSub(a, b) == BigTrim(BigSubB(a, b, 0))

RECURSIVE BigLessFrom(_, _, _)
BigLessFrom(a, b, i) ==
    IF i = 0 THEN FALSE
    ELSE IF a[i] # b[i] THEN a[i] < b[i]
         ELSE BigLessFrom(a, b, i - 1)

\* a < b
BigLess(a, b) ==
    IF Len(a) # Len(b) THEN Len(a) < Len(b) ELSE BigLessFrom(a, b, Len(a))

RECURSIVE BigMulSmall(_, _, _)
\* a * k + carry for a digit k
BigMulSmall(a, k, carry) ==
    IF a = <<>> THEN (IF carry = 0 THEN <<>> ELSE <<carry>>)
    ELSE LET p == Head(a) * k + carry
         IN  <<p % LimbBase>> \o BigMulSmall(Tail(a), k, p \div LimbBase)

RECURSIVE BigMul(_, _)
BigMul(a, b) ==
    IF a = <<>> \/ b = <<>> THEN <<>>
    ELSE LET rest == BigMul(a, Tail(b))
         IN  BigAdd(BigMulSmall(a, Head(b), 0),
                    IF rest = <<>> THEN <<>> ELSE <<0>> \o rest)

BigOdd(a) == a # <<>> /\ a[1] % 2 = 1

\* the number of bits of a
BitLen(a) ==
    IF a = <<>> THEN 0
    ELSE LimbBits * (Len(a) - 1)
         + (CHOOSE k \in 1..LimbBits : 2^(k - 1) <= a[Len(a)] /\ a[Len(a)] < 2^k)

\* bit i of a, the lowest being bit 0
BigBit(a, i) ==
    IF i \div LimbBits + 1 > Len(a) THEN 0
    ELSE (a[i \div LimbBits + 1] \div 2^(i % LimbBits)) % 2

\* floor(a / 2^s)
BigShiftRight(a, s) ==
    LET rest == SubSeq(a, s \div LimbBits + 1, Len(a))
        b == s % LimbBits
    IN  BigTrim([i \in 1..Len(rest) |->
                    rest[i] \div 2^b
                    + (IF i < Len(rest) THEN (rest[i + 1] % 2^b) * 2^(LimbBits - b)
                       ELSE 0)])

\* a * 2^(LimbBits * k)
BigShiftLimbs(a, k) == IF a = <<>> THEN <<>> ELSE [i \in 1..k |-> 0] \o a

RECURSIVE DigitSearch(_, _, _, _)
\* the largest digit d in lo..hi with d * m <= rem
DigitSearch(rem, m, lo, hi) ==
    IF lo >= hi THEN lo
    ELSE LET mid == (lo + hi + 1) \div 2
         IN  IF BigLess(rem, BigMulSmall(m, mid, 0)) THEN DigitSearch(rem, m, lo, mid - 1)
             ELSE DigitSearch(rem, m, mid, hi)

RECURSIVE BigDivMod(_, _)
\* quotient and remainder of a by m, digit by digit from the top
BigDivMod(a, m) ==
    IF a = <<>> THEN [q |-> <<>>, rem |-> <<>>]
    ELSE LET up == BigDivMod(Tail(a), m)
             cur == BigTrim(<<Head(a)>> \o up.rem)
             d == DigitSearch(cur, m, 0, LimbBase - 1)
         IN  [q |-> BigTrim(<<d>> \o up.q),
              rem |-> BigSub(cur, BigMulSmall(m, d, 0))]

RECURSIVE SqrtDigitSearch(_, _, _, _)
\* the largest digit d in lo..hi with (r * LimbBase + d)^2 <= n
SqrtDigitSearch(r, n, lo, hi) ==
    IF lo >= hi THEN lo
    ELSE LET mid == (lo + hi + 1) \div 2
             c == <<mid>> \o r
         IN  IF BigLess(n, BigMul(c, c)) THEN SqrtDigitSearch(r, n, lo, mid - 1)
             ELSE SqrtDigitSearch(r, n, mid, hi)

RECURSIVE BigSqrt(_)
\* floor(sqrt(n)), digit by digit from the top
BigSqrt(n) ==
    IF n = <<>> THEN <<>>
    ELSE LET r == BigSqrt(SubSeq(n, 3, Len(n)))
         IN  BigTrim(<<SqrtDigitSearch(r, n, 0, LimbBase - 1)>> \o r)

MantissaBits == 53

\* round-half-even of (n + a fraction) * 2^e to 53 significant bits, for n
\* of 53 bits or more; sticky says that the fraction is not 0
RoundBits(n, e, sticky) ==
    LET s == BitLen(n) - MantissaBits
        q == BigShiftRight(n, s)
        low == sticky \/ \E i \in 0..(s - 2) : BigBit(n, i) = 1
        up == BigAdd(q, <<1>>)
    IN  IF s = 0 THEN [m |-> n, e |-> e]
        ELSE IF BigBit(n, s - 1) = 1 /\ (low \/ BigOdd(q))
             THEN IF BitLen(up) = MantissaBits THEN [m |-> up, e |-> e + s]
                  ELSE [m |-> BigShiftRight(up, 1), e |-> e + s + 1]
             ELSE [m |-> q, e |-> e + s]

\* 0.0
FloatZero == [m |-> <<>>, e |-> 0]

\* x * y of two floats
FloatMul(x, y) == RoundBits(BigMul(x.m, y.m), x.e + y.e, FALSE)

\* k * c of a positive integer below 2^15 and a float
FloatMulInt(k, c) == RoundBits(BigMulSmall(c.m, k, 0), c.e, FALSE)

\* int(x): the integer part of a float between 0 and 2^31
FloatTrunc(x) ==
    IF 0 - x.e >= MantissaBits THEN 0 ELSE BigToInt(BigShiftRight(x.m, 0 - x.e))

\* digits added below a numerator or a radicand before the rounding
GuardLimbs == 8

\* n / x of a positive integer below 2^15 and a float above 0: the callers
\* return before they divide by 0.0
FloatDivInt(n, x) ==
    IF x.m = <<>> THEN FloatZero
    ELSE LET d == BigDivMod(BigShiftLimbs(BigOf(n), GuardLimbs), x.m)
         IN  RoundBits(d.q, 0 - LimbBits * GuardLimbs - x.e, d.rem # <<>>)

\* math.sqrt(n) of a positive integer below 2^15
FloatSqrt(n) ==
    LET N == BigShiftLimbs(BigOf(n), GuardLimbs)
        r == BigSqrt(N)
    IN  RoundBits(r, 0 - (LimbBits * GuardLimbs) \div 2, BigMul(r, r) # N)

\* x < y of two floats that are positive or 0.0
FloatLess(x, y) ==
    IF y.m = <<>> THEN FALSE
    ELSE IF x.m = <<>> THEN TRUE
    ELSE x.e < y.e \/ (x.e = y.e /\ BigLess(x.m, y.m))

\* 1.0
FloatOne == [m |-> BigShiftLimbs(<<128>>, 3), e |-> 1 - MantissaBits]

\* a * 2^s
BigShiftLeft(a, s) ==
    BigMulSmall(BigShiftLimbs(a, s \div LimbBits), 2^(s % LimbBits), 0)

\* the float of value n * 2^e, for a natural number n that needs no
\* rounding or has 53 bits or more
FloatOfBig(n, e) ==
    IF n = <<>> THEN FloatZero
    ELSE RoundBits(BigShiftLimbs(n, 4), e - 4 * LimbBits, FALSE)

\* float(n) of an integer n >= 0
FloatOfInt(n) == FloatOfBig(BigOf(n), 0)

\* x + y of two floats that are positive or 0.0
FloatAdd(x, y) ==
    IF x.m = <<>> THEN y
    ELSE IF y.m = <<>> THEN x
    ELSE LET e == Min(x.e, y.e)
         IN  FloatOfBig(BigAdd(BigShiftLeft(x.m, x.e - e),
                               BigShiftLeft(y.m, y.e - e)), e)

\* x - y of two floats with x >= y >= 0.0
FloatSub(x, y) ==
    IF y.m = <<>> THEN x
    ELSE LET e == Min(x.e, y.e)
         IN  FloatOfBig(BigSub(BigShiftLeft(x.m, x.e - e),
                               BigShiftLeft(y.m, y.e - e)), e)

\* x * y of two floats that are positive or 0.0
FloatTimes(x, y) ==
    IF x.m = <<>> \/ y.m = <<>> THEN FloatZero ELSE FloatMul(x, y)

\* digits added below the mantissa of a numerator: the quotient of two
\* mantissas then has 59 bits or more
QuotientLimbs == 4

\* x / y of a float that is positive or 0.0 and a positive float (no
\* division of the code has a divisor of 0.0)
FloatDiv(x, y) ==
    IF x.m = <<>> \/ y.m = <<>> THEN FloatZero
    ELSE LET d == BigDivMod(BigShiftLimbs(x.m, QuotientLimbs), y.m)
         IN  RoundBits(d.q, x.e - y.e - LimbBits * QuotientLimbs, d.rem # <<>>)

(* ------------------------- _cosine_similarity ------------------------ *)

\* {r["resource_id"]: r["rating"] for r in ratings}: one user's ratings
RatingMap(coll, user_id) ==
    LET M == OfUser(coll, user_id)
        ids == {d.resource_id : d \in M}
    IN  [id \in ids |-> (CHOOSE d \in M : d.resource_id = id).rating]

RECURSIVE SqrtSearch(_, _, _)
\* the largest k in lo..hi with k * k <= n, when lo * lo <= n
SqrtSearch(n, lo, hi) ==
    IF lo >= hi THEN lo
    ELSE LET mid == (lo + hi + 1) \div 2
         IN  IF mid * mid <= n THEN SqrtSearch(n, mid, hi)
             ELSE SqrtSearch(n, lo, mid - 1)

\* floor(ScoreScale^2 * a / b) for 0 <= a <= b, in 32-bit steps
ScaledQuotient(a, b) ==
    LET A == a * ScoreScale
    IN  (A \div b) * ScoreScale + ((A % b) * ScoreScale) \div b

\* dot_product / (mag1 * mag2) over the common items, in thousandths:
\* floor(1000 * dot / sqrt(sq1 * sq2))
CosineSimilarity(ratings1, ratings2) ==
    LET common == DOMAIN ratings1 \cap DOMAIN ratings2
        dot == SumOver(common, [i \in common |-> ratings1[i] * ratings2[i]])
        sq1 == SumOver(common, [i \in common |-> ratings1[i] * ratings1[i]])
        sq2 == SumOver(common, [i \in common |-> ratings2[i] * ratings2[i]])
    IN  IF Cardinality(common) < 2 THEN 0
        ELSE IF sq1 = 0 \/ sq2 = 0 THEN 0
        ELSE SqrtSearch(ScaledQuotient(dot * dot, sq1 * sq2), 0, ScoreScale)

\* the resources the rating maps of a _cosine_similarity call are over
SimResources == {"r1", "r2", "r3"}

\* math.sqrt on the sums of squares the common items can have
Sqrt == [n \in 1..(Cardinality(SimResources) * MaxRating * MaxRating) |-> FloatSqrt(n)]

\* the early return taken only when no item is common
TooFewCommonNone(common_items) == Cardinality(common_items) < 1

\* len(common_items) < 2
TooFewCommon(common_items) == Cardinality(common_items) < 2

\* the cosine with the first magnitude taken over all of ratings1
CosineSimilarityOwnMagnitude(ratings1, ratings2) ==
    LET common_items == DOMAIN ratings1 \cap DOMAIN ratings2
        dot_product == SumOver(common_items,
                               [i \in common_items |-> ratings1[i] * ratings2[i]])
        sq1 == SumOver(DOMAIN ratings1,
                       [i \in DOMAIN ratings1 |-> ratings1[i] * ratings1[i]])
        sq2 == SumOver(common_items,
                       [i \in common_items |-> ratings2[i] * ratings2[i]])
    IN  IF TooFewCommon(common_items) THEN FloatZero
        ELSE FloatDivInt(dot_product, FloatMul(Sqrt[sq1], Sqrt[sq2]))

\* _cosine_similarity as Python computes it, on floats; the sums are sums
\* of integers and exact, and a magnitude is 0 only when its sum is
CosineSimilarityFloat(ratings1, ratings2) ==
    LET common_items == DOMAIN ratings1 \cap DOMAIN ratings2
        dot_product == SumOver(common_items,
                               [i \in common_items |-> ratings1[i] * ratings2[i]])
        sq1 == SumOver(common_items,
                       [i \in common_items |-> ratings1[i] * ratings1[i]])
        sq2 == SumOver(common_items,
                       [i \in common_items |-> ratings2[i] * ratings2[i]])
    IN  IF TooFewCommon(common_items) THEN FloatZero
        ELSE IF sq1 = 0 \/ sq2 = 0 THEN FloatZero
        ELSE FloatDivInt(dot_product, FloatMul(Sqrt[sq1], Sqrt[sq2]))

\* 0.3 = 0x1.3333333333333p-2
Float03 == [m |-> <<13107, 26214, 19660, 153>>, e |-> -54]

\* a test against 0.5 in place of 0.3
SimilarEnoughAboveHalf(similarity) ==
    FloatLess([m |-> <<0, 0, 0, 128>>, e |-> -53], similarity)

\* if similarity > 0.3
SimilarEnough(similarity) == FloatLess(Float03, similarity)

NoSimilarity == [ratings1 |-> [i \in {} |-> 0], ratings2 |-> [i \in {} |-> 0],
                 status |-> "none", value |-> FloatZero, similar |-> FALSE]

\* one _cosine_similarity call of _find_similar_users and the test of its
\* value against the threshold
Cosine(ratings1, ratings2) ==
    /\ similarityCall.status = "none"
    /\ \E similarity \in {CosineSimilarityFloat(ratings1, ratings2)} :
          similarityCall' = [ratings1 |-> ratings1, ratings2 |-> ratings2,
                             status |-> "returned", value |-> similarity,
                             similar |-> SimilarEnough(similarity)]
    /\ UNCHANGED <<connected, storeUp, now, user_ratings, resources, pc, call,
                   agg, result, calls, lastRated, recommendation, trendingCall,
                   decisionCall>>

\* the caller has taken the value
CosineEnd ==
    /\ similarityCall.status = "returned"
    /\ similarityCall' = NoSimilarity
    /\ UNCHANGED <<connected, storeUp, now, user_ratings, resources, pc, call,
                   agg, result, calls, lastRated, recommendation, trendingCall,
                   decisionCall>>

(* ------------------------ _find_similar_users ------------------------ *)

\* 0.3, in thousandths
SimilarityThreshold == 300

\* the users the $ne / $group aggregation yields
OtherUsers(coll, user_id) ==
    {d.user_id : d \in {c \in BagToSet(coll) : c.user_id # user_id}}

SimilarityTo(coll, user_id, other) ==
    CosineSimilarity(RatingMap(coll, user_id), RatingMap(coll, other))

\* the lists _find_similar_users can return: the aggregation yields the
\* users in no stated order, the stable sort orders them by similarity
FindSimilarUsers(coll, user_id) ==
    LET S == {u \in OtherUsers(coll, user_id) :
                SimilarityTo(coll, user_id, u) > SimilarityThreshold}
    IN  {Slice(SortDesc(l, [u \in S |-> SimilarityTo(coll, user_id, u)]),
               TopSimilarUsers) : l \in Perms(S)}

(* ----------------- _get_collaborative_recommendations ---------------- *)

\* recommendation_score / recommendation_type of an entry that has none
Absent == -1

\* the fields of a resource document every list copies
Entry(docs, id, score, type) ==
    [id |-> id,
     average_rating |-> docs[id].average_rating,
     rating_count |-> docs[id].rating_count,
     recommendation_score |-> score,
     recommendation_type |-> type]

\* the neighbour's ratings the target has not rated, whatever the stars
EndorsedAnyRating(coll, other, rated) ==
    LET m == RatingMap(coll, other)
    IN  {id \in DOMAIN m : id \notin rated}

\* the neighbour's ratings that count: not rated by the target, 4 or more
Endorsed(coll, other, rated) ==
    LET m == RatingMap(coll, other)
    IN  {id \in DOMAIN m : id \notin rated /\ m[id] >= 4}

RECURSIVE ScoreKeyOrders(_, _, _, _)
\* the orders in which resource_scores can get its keys: neighbours in list
\* order, the ratings of one neighbour in the order the $push kept
ScoreKeyOrders(coll, similar_users, rated, seen) ==
    IF similar_users = <<>> THEN {<<>>}
    ELSE LET new == Endorsed(coll, Head(similar_users), rated) \ seen
         IN  {a \o b : a \in Perms(new),
                       b \in ScoreKeyOrders(coll, Tail(similar_users), rated,
                                            seen \cup new)}

\* data["score"] / data["count"], in thousandths
CollaborativeScore(coll, user_id, similar_users, rated, id) ==
    LET N == {i \in 1..Len(similar_users) :
                id \in Endorsed(coll, similar_users[i], rated)}
        w == [i \in N |-> RatingMap(coll, similar_users[i])[id]
                          * SimilarityTo(coll, user_id, similar_users[i])]
    IN  IF Cardinality(N) > 0 THEN SumOver(N, w) \div Cardinality(N) ELSE 0

\* bool(module_id) is false for None
ModuleMatches(doc, module_id) == module_id = None \/ doc.module_id = module_id

\* the lists _get_collaborative_recommendations can return for one list of
\* similar users
CollaborativeRecommendations(coll, docs, user_id, similar_users, rated, module_id) ==
    {LET kept == SelectIn(keys, {id \in DOMAIN docs :
                                   ModuleMatches(docs[id], module_id)})
     IN  [i \in 1..Len(kept) |->
            Entry(docs, kept[i],
                  CollaborativeScore(coll, user_id, similar_users, rated, kept[i]),
                  "collaborative")]
     : keys \in ScoreKeyOrders(coll, similar_users, rated, {})}

(* ----------------- _get_content_based_recommendations ---------------- *)

\* whether a list is in non-increasing order of the keys key gives
IsSortedDesc(list, key) ==
    \A i \in 1..(Len(list) - 1) : key[list[i]] >= key[list[i + 1]]

\* the lists the find / sort("average_rating", -1) / limit(10) query can
\* yield: the store orders equal averages as it likes.  The score is
\* average_rating * 0.8.
ContentBasedRecommendations(docs, module_id, rated) ==
    LET D == {id \in DOMAIN docs : docs[id].module_id = module_id /\ id \notin rated}
    IN  {LET top == Slice(l, ContentLimit)
         IN  [i \in 1..Len(top) |->
                Entry(docs, top[i],
                      (docs[top[i]].average_rating * 8 * ScoreScale) \div 100,
                      "content")]
         : l \in {q \in Perms(D) :
                    IsSortedDesc(q, [id \in D |-> docs[id].average_rating])}}

(* ----------------------- get_trending_resources ---------------------- *)

\* the $gte bound of the last $match: 3.5, in tenths
TrendingMinAverage == 35

\* the ratings the first $match keeps
RecentRatings(coll, today) ==
    {d \in BagToSet(coll) : d.updated_at >= today - TrendingWindowDays}

\* the $group of one resource: recent_ratings and the sum behind avg_rating
RecentGroup(coll, today, id) ==
    LET M == {d \in RecentRatings(coll, today) : d.resource_id = id}
    IN  [recent_ratings |-> CountOf(coll, M),
         sum |-> SumOver(M, [d \in M |-> d.rating * CopiesIn(d, coll)])]

\* the groups without the quality filter
TrendingGroupsUnfiltered(coll, today) ==
    {d.resource_id : d \in RecentRatings(coll, today)}

\* the groups that pass {"avg_rating": {"$gte": 3.5}}
TrendingGroups(coll, today) ==
    {id \in {d.resource_id : d \in RecentRatings(coll, today)} :
        LET g == RecentGroup(coll, today, id)
        IN  10 * g.sum >= TrendingMinAverage * g.recent_ratings}

\* $sort {recent_ratings: -1, avg_rating: -1}: a strictly before b
RanksBefore(coll, today, a, b) ==
    LET ga == RecentGroup(coll, today, a)
        gb == RecentGroup(coll, today, b)
    IN  \/ ga.recent_ratings > gb.recent_ratings
        \/ /\ ga.recent_ratings = gb.recent_ratings
           /\ ga.sum * gb.recent_ratings > gb.sum * ga.recent_ratings

\* the id sets the pipeline can yield after {"$limit": limit * 2}: the
\* store breaks the ties of the sort as it likes
TrendingIds(coll, today, limit) ==
    LET Q == TrendingGroups(coll, today)
        k == Min(Max(2 * limit, 0), Cardinality(Q))
    IN  {S \in SUBSET Q : /\ Cardinality(S) = k
                          /\ \A x \in S, y \in Q \ S : ~RanksBefore(coll, today, y, x)}

\* db.resources.find(query).limit(limit) for one id set: the documents in
\* natural order
TrendingOf(docs, ids, module_id, limit) ==
    LET hits == SelectIn(ResourceOrder, {id \in DOMAIN docs :
                                           /\ id \in ids
                                           /\ ModuleMatches(docs[id], module_id)})
        top == Slice(hits, limit)
    IN  [i \in 1..Len(top) |-> Entry(docs, top[i], Absent, None)]

\* the lists get_trending_resources can return
TrendingResources(coll, docs, today, module_id, limit) ==
    {TrendingOf(docs, ids, module_id, limit) : ids \in TrendingIds(coll, today, limit)}

(* -------------------- get_recommendations_for_user ------------------- *)

\* x.get("recommendation_score", 0)
SortKey(rec) ==
    IF rec.recommendation_score = Absent THEN 0 ELSE rec.recommendation_score

\* the loop without its seen set
UniqueKeepAll(list, seen) == list

RECURSIVE UniqueKeepLast(_, _)
\* the loop with the last entry of each id staying
UniqueKeepLast(list, seen) ==
    IF list = <<>> THEN <<>>
    ELSE IF \E i \in 2..Len(list) : list[i].id = Head(list).id
         THEN UniqueKeepLast(Tail(list), seen)
         ELSE <<Head(list)>> \o UniqueKeepLast(Tail(list), seen)

RECURSIVE Unique(_, _)
\* the seen / unique_recommendations loop: the first entry of each id stays
Unique(list, seen) ==
    IF list = <<>> THEN <<>>
    ELSE IF Head(list).id \in seen THEN Unique(Tail(list), seen)
         ELSE <<Head(list)>> \o Unique(Tail(list), seen \cup {Head(list).id})

\* the trending entries tagged without the look at rated_resource_ids
TaggedTrendingAll(trending, rated) ==
    [i \in 1..Len(trending) |-> [trending[i] EXCEPT !.recommendation_type = "trending"]]

\* the trending entries the recommender appends
TaggedTrending(trending, rated) ==
    LET kept == SelectIn(trending, {r \in Range(trending) : r.id \notin rated})
    IN  [i \in 1..Len(kept) |-> [kept[i] EXCEPT !.recommendation_type = "trending"]]

\* dedupe and truncate without the sort
MergeUnsorted(list, limit) == Slice(Unique(list, {}), limit)

\* dedupe, sort by score, truncate
Merge(list, limit) ==
    LET unique == Unique(list, {})
    IN  Slice(SortDesc(unique, [r \in Range(unique) |-> SortKey(r)]), limit)

\* rated_resource_ids
RatedResourceIds(coll, user_id) == {d.resource_id : d \in OfUser(coll, user_id)}

\* the lists without the look at the number of the user's ratings
GatheredAlwaysCollaborative(coll, docs, user_id, module_id) ==
    LET rated == {d.resource_id : d \in OfUser(coll, user_id)}
        CF == UNION {CollaborativeRecommendations(coll, docs, user_id, su,
                                                  rated, module_id)
                     : su \in FindSimilarUsers(coll, user_id)}
        CB == IF module_id # None
              THEN ContentBasedRecommendations(docs, module_id, rated)
              ELSE {<<>>}
    IN  {cf \o cb : cf \in CF, cb \in CB}

\* the lists `recommendations` can hold before the trending call: the
\* collaborative entries, when the user has rated enough, then the
\* content-based ones, when a module is given
Gathered(coll, docs, user_id, module_id) ==
    LET mine == OfUser(coll, user_id)
        rated == RatedResourceIds(coll, user_id)
        n == CountOf(coll, mine)
        CF == IF n >= MinRatingsForRecommendation
              THEN UNION {CollaborativeRecommendations(coll, docs, user_id, su,
                                                       rated, module_id)
                          : su \in FindSimilarUsers(coll, user_id)}
              ELSE {<<>>}
        CB == IF module_id # None
              THEN ContentBasedRecommendations(docs, module_id, rated)
              ELSE {<<>>}
    IN  {cf \o cb : cf \in CF, cb \in CB}

\* the lists get_recommendations_for_user can return once the trending
\* call has answered
Recommendations(coll, docs, today, gathered, user_id, module_id, limit) ==
    {Merge(gathered \o TaggedTrending(tr, RatedResourceIds(coll, user_id)), limit)
     : tr \in TrendingResources(coll, docs, today, module_id, RecommenderTrendingLimit)}

NoRecommendation == [user_id |-> None, module_id |-> None, limit |-> 0,
                     status |-> "none", items |-> <<>>]

\* week_ago is the bound of the window the call computed on entry
NoTrending == [module_id |-> None, limit |-> 0, week_ago |-> 0, status |-> "none",
               items |-> <<>>]

\* one request is served at a time
NoRequest == recommendation.status = "none" /\ trendingCall.status = "none"

\* entry up to the trending call: [] without a database handle, an
\* exception when a request to the store raises, else the collaborative and
\* content-based entries are gathered
Recommend(user_id, module_id, limit) ==
    /\ NoRequest
    /\ \E out \in IF GetDb = None THEN {[status |-> "returned", items |-> <<>>]}
                  ELSE IF ~storeUp THEN {[status |-> "raised", items |-> <<>>]}
                  ELSE {[status |-> "gathered", items |-> l] :
                          l \in Gathered(user_ratings, resources, user_id, module_id)} :
          recommendation' = [user_id |-> user_id, module_id |-> module_id,
                             limit |-> limit, status |-> out.status,
                             items |-> out.items]
    /\ UNCHANGED <<connected, storeUp, now, user_ratings, resources, pc, call,
                   agg, result, calls, lastRated, trendingCall, similarityCall, decisionCall>>

\* the trending call and the rest: the exception of a failing store request
\* is not caught anywhere, it ends the whole call
RecommendTrending ==
    /\ recommendation.status = "gathered"
    /\ \E out \in IF ~storeUp THEN {[status |-> "raised", items |-> <<>>]}
                  ELSE {[status |-> "returned", items |-> l] :
                          l \in Recommendations(user_ratings, resources, now,
                                                recommendation.items,
                                                recommendation.user_id,
                                                recommendation.module_id,
                                                recommendation.limit)} :
          recommendation' = [recommendation EXCEPT !.status = out.status,
                                                   !.items = out.items]
    /\ UNCHANGED <<connected, storeUp, now, user_ratings, resources, pc, call,
                   agg, result, calls, lastRated, trendingCall, similarityCall, decisionCall>>

\* the response has gone out
RecommendEnd ==
    /\ recommendation.status \in {"returned", "raised"}
    /\ recommendation' = NoRecommendation
    /\ UNCHANGED <<connected, storeUp, now, user_ratings, resources, pc, call,
                   agg, result, calls, lastRated, trendingCall, similarityCall, decisionCall>>

\* GET /trending: one get_trending_resources call
Trending(module_id, limit) ==
    /\ NoRequest
    /\ \E out \in IF GetDb = None THEN {[status |-> "returned", items |-> <<>>]}
                  ELSE IF ~storeUp THEN {[status |-> "raised", items |-> <<>>]}
                  ELSE {[status |-> "returned", items |-> l] :
                          l \in TrendingResources(user_ratings, resources, now,
                                                  module_id, limit)} :
          trendingCall' = [module_id |-> module_id, limit |-> limit,
                           week_ago |-> now - TrendingWindowDays,
                           status |-> out.status, items |-> out.items]
    /\ UNCHANGED <<connected, storeUp, now, user_ratings, resources, pc, call,
                   agg, result, calls, lastRated, recommendation, similarityCall, decisionCall>>

\* the response has gone out
TrendingEnd ==
    /\ trendingCall.status # "none"
    /\ trendingCall' = NoTrending
    /\ UNCHANGED <<connected, storeUp, now, user_ratings, resources, pc, call,
                   agg, result, calls, lastRated, recommendation, similarityCall, decisionCall>>

(* ------------------------ StudyDecisionService ----------------------- *)
\* A module of a request is [id, difficulty, examDays, progress]: examDays
\* is (exam_date - datetime.now()).days, Absent without an examDate or when
\* the date does not parse; progress is Absent when it is None.

\* the float literals of _calculate_duration
\* 0.7 = 0x1.6666666666666p-1
Float07 == [m |-> <<26214, 19660, 6553, 179>>, e |-> -53]

\* 0.8 = 0x1.999999999999ap-1
Float08 == [m |-> <<6554, 13107, 26214, 204>>, e |-> -53]

\* 0.9 = 0x1.ccccccccccccdp-1
Float09 == [m |-> <<19661, 6553, 13107, 230>>, e |-> -53]

\* 1.1 = 0x1.199999999999ap+0
Float11 == [m |-> <<6554, 13107, 26214, 140>>, e |-> -52]

\* int(k * c) for an integer k >= 0 and a float c
TruncMul(k, c) == IF k = 0 THEN 0 ELSE FloatTrunc(FloatMulInt(k, c))

\* the rules with the revise rule tried first
DetermineActivityReviseFirst(mood, energy_level, time_available) ==
    IF time_available >= 60 /\ ~(energy_level >= 7 /\ time_available >= 90)
    THEN "revise"
    ELSE IF energy_level <= 4 \/ time_available <= 30 THEN "flashcards"
    ELSE IF energy_level >= 7 /\ time_available >= 90 THEN "practice"
    ELSE "summary"

\* _determine_activity
DetermineActivity(mood, energy_level, time_available) ==
    IF energy_level <= 4 \/ time_available <= 30 THEN "flashcards"
    ELSE IF energy_level >= 7 /\ time_available >= 90 THEN "practice"
    ELSE IF time_available >= 60 THEN "revise"
    ELSE "summary"

\* min(time_available, 120)
MaxBaseDuration == 120

\* max(15, ...)
MinDuration == 15

\* (duration // 5) * 5
DurationStep == 5

\* activity_multipliers.get(activity, 1.0)
ActivityMultiplier(activity) ==
    CASE activity = "flashcards" -> Float08
      [] activity = "summary" -> Float09
      [] activity = "practice" -> Float11
      [] OTHER -> FloatOne

\* the energy adjustment of base_duration
BaseDuration(time_available, energy_level) ==
    LET base_duration == Min(time_available, MaxBaseDuration)
    IN  IF energy_level <= 4 THEN TruncMul(base_duration, Float07)
        ELSE IF energy_level >= 8 THEN TruncMul(base_duration, Float11)
        ELSE base_duration

\* the duration without the floor of 15 minutes
CalculateDurationNoFloor(time_available, energy_level, activity) ==
    LET duration == TruncMul(BaseDuration(time_available, energy_level),
                             ActivityMultiplier(activity))
    IN  (duration \div DurationStep) * DurationStep

\* _calculate_duration
CalculateDuration(time_available, energy_level, activity) ==
    LET duration == TruncMul(BaseDuration(time_available, energy_level),
                             ActivityMultiplier(activity))
    IN  Max(MinDuration, (duration \div DurationStep) * DurationStep)

\* twice difficulty_weight
TwiceDifficultyWeight(energyLevel) ==
    IF energyLevel >= 7 THEN 3 ELSE IF energyLevel <= 4 THEN 1 ELSE 2

\* 1.3 = 0x1.4cccccccccccdp+0
Float13 == [m |-> <<19661, 6553, 13107, 166>>, e |-> -52]

\* 0.5
FloatHalf == [m |-> <<0, 0, 0, 128>>, e |-> -53]

\* mood_multiplier.get(request.mood, 1.0)
MoodMultiplier(mood) ==
    CASE mood = "low" -> Float07
      [] mood = "high" -> Float13
      [] OTHER -> FloatOne

\* _calculate_module_score, sum by sum and product by product in binary64:
\* difficulty * difficulty_weight * 10 is a small multiple of 5 and exact
CalculateModuleScore(module, request) ==
    LET difficulty ==
            FloatOfInt(module.difficulty
                       * TwiceDifficultyWeight(request.energyLevel) * 5)
        proximity_score ==
            FloatDiv(FloatOfInt(100),
                     FloatAdd(FloatOne, FloatDiv(FloatOfInt(module.examDays),
                                                 FloatOfInt(7))))
        with_exam == IF module.examDays # Absent /\ module.examDays > 0
                     THEN FloatAdd(difficulty, proximity_score)
                     ELSE difficulty
        with_progress ==
            IF module.progress # Absent
            THEN FloatAdd(with_exam,
                          FloatTimes(FloatOfInt(100 - module.progress), FloatHalf))
            ELSE with_exam
        energy_multiplier == FloatDiv(FloatOfInt(request.energyLevel), FloatOfInt(10))
    IN  FloatTimes(FloatTimes(with_progress, MoodMultiplier(request.mood)),
                   energy_multiplier)

(* the requests' moods, energy levels and modules *)

StudyMoods == {"low", "medium", "high"}

EnergyLevels == 1..10

\* the schema takes any integer as energyLevel: 0 is one outside 1..10
RequestEnergyLevels == {0} \cup EnergyLevels

\* the modules of the requests: hard or easy; an exam in 3 days and little
\* done, no exam and nearly done, or neither field given
StudyModules ==
    {[id |-> id, difficulty |-> d, examDays |-> x[1], progress |-> x[2]] :
        id \in {"a"}, d \in {3, 9},
        x \in {<<3, 20>>, <<Absent, 90>>, <<Absent, Absent>>}}

\* the scores of these modules under every mood and energy level, each
\* computed once: <<difficulty, examDays, progress, mood, energyLevel, score>>
ModuleScoreTable ==
    {<<module.difficulty, module.examDays, module.progress, mood, energyLevel,
       CalculateModuleScore(module, [mood |-> mood, energyLevel |-> energyLevel])>> :
        module \in StudyModules, mood \in StudyMoods,
        energyLevel \in RequestEnergyLevels}

\* score = self._calculate_module_score(module, request)
ModuleScore(module, request) ==
    (CHOOSE t \in ModuleScoreTable :
        /\ t[1] = module.difficulty /\ t[2] = module.examDays
        /\ t[3] = module.progress /\ t[4] = request.mood
        /\ t[5] = request.energyLevel)[6]

RECURSIVE InsertBeforeEqual(_, _)
\* x put before the entries of the sorted list whose score is equal
InsertBeforeEqual(sorted, x) ==
    IF sorted = <<>> THEN <<x>>
    ELSE IF FloatLess(x.score, Head(sorted).score)
         THEN <<Head(sorted)>> \o InsertBeforeEqual(Tail(sorted), x)
         ELSE <<x>> \o sorted

RECURSIVE InsertByScore(_, _)
\* x put behind every entry of the sorted list whose score is not smaller
InsertByScore(sorted, x) ==
    IF sorted = <<>> THEN <<x>>
    ELSE IF ~FloatLess(Head(sorted).score, x.score)
         THEN <<Head(sorted)>> \o InsertByScore(Tail(sorted), x)
         ELSE <<x>> \o sorted

RECURSIVE SortByScore(_)
\* module_scores.sort(key=lambda x: x["score"], reverse=True): stable
SortByScore(list) ==
    IF list = <<>> THEN <<>>
    ELSE InsertByScore(SortByScore(SubSeq(list, 1, Len(list) - 1)), list[Len(list)])

\* 0.6 = 0x1.3333333333333p-1
Float06 == [m |-> <<13107, 26214, 19660, 153>>, e |-> -53]

\* 0.35 = 0x1.6666666666666p-2
Float035 == [m |-> <<26214, 19660, 6553, 179>>, e |-> -54]

\* 0.95 = 0x1.e666666666666p-1
Float095 == [m |-> <<26214, 19660, 6553, 243>>, e |-> -53]

\* the confidence with the gap measured against the second score, uncapped
ScoreConfidenceOverSecond(top_score, second_score) ==
    IF top_score = FloatZero \/ second_score = FloatZero THEN FloatHalf
    ELSE FloatAdd(Float06,
                  FloatTimes(FloatDiv(FloatSub(top_score, second_score),
                                      second_score), Float035))

\* min(0.95, 0.6 + score_ratio * 0.35), and 0.5 for a top score of 0; the
\* list is sorted, so top_score - second_score is not negative
ScoreConfidence(top_score, second_score) ==
    IF top_score = FloatZero THEN FloatHalf
    ELSE LET score_ratio == FloatDiv(FloatSub(top_score, second_score), top_score)
             confidence == FloatAdd(Float06, FloatTimes(score_ratio, Float035))
         IN  IF FloatLess(confidence, Float095) THEN confidence ELSE Float095

\* the confidences of every two scores one request can give, each
\* computed once: <<top_score, second_score, confidence>>
ConfidenceTable ==
    {<<t[6], s[6], ScoreConfidence(t[6], s[6])>> :
        <<t, s>> \in {p \in ModuleScoreTable \X ModuleScoreTable :
                        /\ p[1][4] = p[2][4] /\ p[1][5] = p[2][5]
                        /\ ~FloatLess(p[1][6], p[2][6])}}

\* the confidence of the two highest scores of a request
ConfidenceOfScores(top_score, second_score) ==
    (CHOOSE c \in ConfidenceTable : c[1] = top_score /\ c[2] = second_score)[3]

\* the confidence with a lone module measured against a second score of 0
CalculateConfidenceLoneAsZero(module_scores) ==
    IF Len(module_scores) < 2
    THEN ScoreConfidence(module_scores[1].score, FloatZero)
    ELSE ConfidenceOfScores(module_scores[1].score, module_scores[2].score)

\* _calculate_confidence: 0.8 for fewer than two modules
CalculateConfidence(module_scores) ==
    IF Len(module_scores) < 2 THEN Float08
    ELSE ConfidenceOfScores(module_scores[1].score, module_scores[2].score)

\* _get_reason: the reasons in the order they are joined
GetReason(module) ==
    LET exam == IF module.examDays # Absent /\ module.examDays > 0
                   /\ module.examDays <= 14
                THEN <<"Exam in days">> ELSE <<>>
        progress == IF module.progress # Absent /\ module.progress < 50
                    THEN <<"Low progress">> ELSE <<>>
        difficulty == IF module.difficulty >= 7 THEN <<"High difficulty">> ELSE <<>>
        reasons == exam \o progress \o difficulty
    IN  IF reasons = <<>> THEN <<"Good time to review">> ELSE reasons

\* chat_completion without its except clause: the provider's exception
\* leaves the call
ChatCompletionUncaught(llm) ==
    CASE llm = "answers" -> "generated"
      [] llm = "raises" -> "raised"
      [] OTHER -> "fallback"

\* LLMService.chat_completion: the provider's text, or the fallback text
\* when no provider is configured or its call raises
ChatCompletion(llm) == IF llm = "answers" THEN "generated" ELSE "fallback"

NoRequestBody == [mood |-> None, energyLevel |-> 0, timeAvailable |-> 0,
                  modules |-> <<>>]

\* llm is what the provider does during the call
NoDecision == [request |-> NoRequestBody, llm |-> None, status |-> "none",
               recommendedModule |-> None, reason |-> <<>>,
               recommendedActivity |-> None, suggestedDuration |-> 0,
               explanation |-> None, confidence |-> FloatZero]

\* get_recommendation: module_scores[0] raises IndexError on an empty list;
\* an exception out of chat_completion would not be caught on the way
GetRecommendation(request, llm) ==
    /\ decisionCall.status = "none"
    /\ decisionCall' =
          IF request.modules = <<>>
          THEN [NoDecision EXCEPT !.request = request, !.llm = llm,
                                  !.status = "raised"]
          ELSE LET module_scores ==
                       SortByScore([i \in 1..Len(request.modules) |->
                                      [module |-> request.modules[i],
                                       score |-> ModuleScore(request.modules[i],
                                                             request)]])
                   recommended_module == module_scores[1].module
                   recommended_activity ==
                       DetermineActivity(request.mood, request.energyLevel,
                                         request.timeAvailable)
                   explanation == ChatCompletion(llm)
               IN  IF explanation = "raised"
                   THEN [NoDecision EXCEPT !.request = request, !.llm = llm,
                                           !.status = "raised"]
                   ELSE
                   [request |-> request,
                    llm |-> llm,
                    status |-> "returned",
                    recommendedModule |-> recommended_module.id,
                    reason |-> GetReason(recommended_module),
                    recommendedActivity |-> recommended_activity,
                    suggestedDuration |->
                        CalculateDuration(request.timeAvailable,
                                          request.energyLevel,
                                          recommended_activity),
                    explanation |-> explanation,
                    confidence |-> CalculateConfidence(module_scores)]
    /\ UNCHANGED <<connected, storeUp, now, user_ratings, resources, pc, call,
                   agg, result, calls, lastRated, recommendation, trendingCall,
                   similarityCall>>

\* one _calculate_duration call on its own: the arguments and the value in
\* the fields the full call puts them in
CalculateDurationCall(time_available, energy_level, activity) ==
    /\ decisionCall.status = "none"
    /\ decisionCall' =
          [NoDecision EXCEPT !.status = "duration",
                             !.request.timeAvailable = time_available,
                             !.request.energyLevel = energy_level,
                             !.recommendedActivity = activity,
                             !.suggestedDuration =
                                 CalculateDuration(time_available, energy_level,
                                                   activity)]
    /\ UNCHANGED <<connected, storeUp, now, user_ratings, resources, pc, call,
                   agg, result, calls, lastRated, recommendation, trendingCall,
                   similarityCall>>

\* the response has gone out
GetRecommendationEnd ==
    /\ decisionCall.status # "none"
    /\ decisionCall' = NoDecision
    /\ UNCHANGED <<connected, storeUp, now, user_ratings, resources, pc, call,
                   agg, result, calls, lastRated, recommendation, trendingCall,
                   similarityCall>>

(* ---------------------------- environment ---------------------------- *)

StoreDown ==
    /\ connected
    /\ storeUp
    /\ storeUp' = FALSE
    /\ UNCHANGED <<connected, now, user_ratings, resources, pc, call, agg,
                   result, calls, lastRated, recommendation,
                   trendingCall, similarityCall, decisionCall>>

StoreBack ==
    /\ ~storeUp
    /\ storeUp' = TRUE
    /\ UNCHANGED <<connected, now, user_ratings, resources, pc, call, agg,
                   result, calls, lastRated, recommendation,
                   trendingCall, similarityCall, decisionCall>>

Tick ==
    /\ now + TickDays <= MaxNow
    /\ now' = now + TickDays
    /\ UNCHANGED <<connected, storeUp, user_ratings, resources, pc, call, agg,
                   result, calls, lastRated, recommendation,
                   trendingCall, similarityCall, decisionCall>>

(* --------------------------- specifications -------------------------- *)

RatedIds == DocIds \cup {UnknownId}

\* the state after startup: MongoDB.connect() has set the handles or has
\* left them None, the collections hold the seeded resources and no rating
Init ==
    /\ connected \in BOOLEAN
    /\ storeUp = TRUE
    /\ now = 0
    /\ user_ratings = EmptyBag
    /\ resources = [id \in DocIds |-> [module_id |-> SeedModule[id],
                                       average_rating |-> 0,
                                       rating_count |-> 0]]
    /\ pc = [p \in Procs |-> "idle"]
    /\ call = [p \in Procs |-> NoCall]
    /\ agg = [p \in Procs |-> NoGroup]
    /\ result = [p \in Procs |-> None]
    /\ calls = 0
    /\ lastRated = [k \in Users \X RatedIds |-> 0]
    /\ recommendation = NoRecommendation
    /\ trendingCall = NoTrending
    /\ similarityCall = NoSimilarity
    /\ decisionCall = NoDecision

RateStep(p) ==
    \/ RateUpsert(p)
    \/ RateAggregate(p)
    \/ RateWrite(p)
    \/ RateReturn(p)
    \/ RateEnd(p)

\* requests interleave at every await
Next ==
    \/ /\ calls < MaxCalls
       /\ \E p \in Procs, u \in {"u1", "u2"}, r \in {"r1", UnknownId},
             x \in RateRatings : RateStart(p, u, r, x, None)
    \/ \E p \in Procs : RateStep(p)
    \/ StoreDown
    \/ StoreBack

Spec == Init /\ [][Next]_vars

\* requests run one at a time
NextSeq ==
    \/ /\ calls < MaxSeqCalls
       /\ \A q \in Procs : pc[q] = "idle"
       /\ \E u \in Users, r \in {"r1", "r2", UnknownId}, x \in RateRatings :
             RateStart("p1", u, r, x, None)
    \/ RateStep("p1")
    \/ StoreDown
    \/ StoreBack

SpecSeq == Init /\ [][NextSeq]_vars

(* --------------------- recommending over a store --------------------- *)

SeedUsers == {"u1", "u2"}

\* the day each seeded user rated
SeedDay == [u \in SeedUsers |-> IF u = "u1" THEN 0 ELSE TickDays]

\* what a seeded user can have given a resource: nothing (0) or a number of
\* stars
SeedChoices(user_id, resource_id) ==
    IF user_id = "u1" THEN (IF resource_id = "r3" THEN <<0, 2>> ELSE <<0, 5>>)
    ELSE IF resource_id = UnknownId THEN <<0>>
    ELSE IF resource_id = "r4" THEN <<0, 4, 5>>
    ELSE <<0, 3, 5>>

Seeds ==
    {[k \in SeedUsers \X RatedIds |-> SeedChoices(k[1], k[2])[pick[k]]]
     : pick \in {q \in [SeedUsers \X RatedIds -> 1..3] :
                   \A k \in DOMAIN q : q[k] <= Len(SeedChoices(k[1], k[2]))}}

\* no rating at all
EmptySeed == [k \in SeedUsers \X RatedIds |-> 0]

SeedRatings(seed) ==
    SetToBag({[user_id |-> k[1], resource_id |-> k[2],
               module_id |-> None, rating |-> seed[k],
               updated_at |-> SeedDay[k[1]]] : k \in {j \in DOMAIN seed : seed[j] # 0}})

\* the aggregates rate_resource leaves behind for these ratings
SeedResources(coll) ==
    [id \in DocIds |->
        LET g == AggregateRatings(coll, id)
        IN  [module_id |-> SeedModule[id],
             average_rating |-> IF g = NoGroup THEN 0 ELSE Round1(g.sum, g.count),
             rating_count |-> g.count]]

\* a store that rate calls made one at a time have filled: u1 rated on
\* day 0, u2 on day TickDays, and it is day TickDays.  A server without a
\* database handle never reads the store, one store stands for all then.
InitRec ==
    /\ connected \in BOOLEAN
    /\ storeUp = TRUE
    /\ now = TickDays
    /\ \E seed \in Seeds :
          /\ connected \/ seed = EmptySeed
          /\ user_ratings = SeedRatings(seed)
          /\ resources = SeedResources(SeedRatings(seed))
    /\ pc = [p \in Procs |-> "idle"]
    /\ call = [p \in Procs |-> NoCall]
    /\ agg = [p \in Procs |-> NoGroup]
    /\ result = [p \in Procs |-> None]
    /\ calls = 0
    /\ lastRated = [k \in Users \X RatedIds |-> 0]
    /\ recommendation = NoRecommendation
    /\ trendingCall = NoTrending
    /\ similarityCall = NoSimilarity
    /\ decisionCall = NoDecision

RecLimits == {0, 2, 10}

TrendingLimits == {0, 1, 10}

NextRec ==
    \/ /\ NoRequest
       /\ \E u \in SeedUsers, m \in {None, "m1"}, l \in RecLimits : Recommend(u, m, l)
    \/ RecommendTrending
    \/ RecommendEnd
    \/ /\ NoRequest
       /\ \E m \in {None, "m1"}, l \in TrendingLimits : Trending(m, l)
    \/ TrendingEnd
    \/ Tick
    \/ StoreDown
    \/ StoreBack

SpecRec == InitRec /\ [][NextRec]_vars

(* ------------------- recommending with two neighbours --------------- *)

\* what each of three users can have given a resource: u1 is the user of the
\* requests, u2 and u3 share r1 and r2 with u1 or not, and rate r3 and r4,
\* which u1 has not rated, on both sides of 4 stars
NeighbourChoices(user_id, resource_id) ==
    IF user_id = "u1"
    THEN (IF resource_id = "r1" THEN <<5>>
          ELSE IF resource_id = "r2" THEN <<1, 5>>
          ELSE IF resource_id = UnknownId THEN <<0, 3>>
          ELSE <<0>>)
    ELSE IF user_id = "u2"
    THEN (IF resource_id = "r1" THEN <<0, 5>>
          ELSE IF resource_id = "r2" THEN <<5>>
          ELSE IF resource_id = "r3" THEN <<0, 3, 4>>
          ELSE IF resource_id = "r4" THEN <<0, 5>>
          ELSE <<0>>)
    ELSE (IF resource_id = "r1" THEN <<5>>
          ELSE IF resource_id = "r2" THEN <<0, 5>>
          ELSE IF resource_id = "r3" THEN <<0, 2, 5>>
          ELSE IF resource_id = "r4" THEN <<0, 3>>
          ELSE <<0>>)

\* the ratings with more than one choice
NeighbourOpen ==
    {k \in Users \X RatedIds : Len(NeighbourChoices(k[1], k[2])) > 1}

NeighbourSeeds ==
    {[k \in Users \X RatedIds |->
        NeighbourChoices(k[1], k[2])[IF k \in NeighbourOpen THEN pick[k] ELSE 1]]
     : pick \in {q \in [NeighbourOpen -> 1..3] :
                   \A k \in DOMAIN q : q[k] <= Len(NeighbourChoices(k[1], k[2]))}}

NeighbourRatings(seed) ==
    SetToBag({[user_id |-> k[1], resource_id |-> k[2],
               module_id |-> None, rating |-> seed[k],
               updated_at |-> TickDays] : k \in {j \in DOMAIN seed : seed[j] # 0}})

\* a store that rate calls of three users, made one at a time on day
\* TickDays, have filled
InitNeighbours ==
    /\ connected = TRUE
    /\ storeUp = TRUE
    /\ now = TickDays
    /\ \E seed \in NeighbourSeeds :
          /\ user_ratings = NeighbourRatings(seed)
          /\ resources = SeedResources(NeighbourRatings(seed))
    /\ pc = [p \in Procs |-> "idle"]
    /\ call = [p \in Procs |-> NoCall]
    /\ agg = [p \in Procs |-> NoGroup]
    /\ result = [p \in Procs |-> None]
    /\ calls = 0
    /\ lastRated = [k \in Users \X RatedIds |-> 0]
    /\ recommendation = NoRecommendation
    /\ trendingCall = NoTrending
    /\ similarityCall = NoSimilarity
    /\ decisionCall = NoDecision

NextNeighbours ==
    \/ /\ NoRequest
       /\ \E m \in {None, "m1"}, l \in RecLimits : Recommend("u1", m, l)
    \/ RecommendTrending
    \/ RecommendEnd

SpecNeighbours == InitNeighbours /\ [][NextNeighbours]_vars

(* ------------------------ the pure computations --------------------- *)

\* a server that has served nothing yet; these calls do not touch the store
InitPure ==
    /\ connected = FALSE
    /\ storeUp = TRUE
    /\ now = 0
    /\ user_ratings = EmptyBag
    /\ resources = [id \in DocIds |-> [module_id |-> SeedModule[id],
                                       average_rating |-> 0,
                                       rating_count |-> 0]]
    /\ pc = [p \in Procs |-> "idle"]
    /\ call = [p \in Procs |-> NoCall]
    /\ agg = [p \in Procs |-> NoGroup]
    /\ result = [p \in Procs |-> None]
    /\ calls = 0
    /\ lastRated = [k \in Users \X RatedIds |-> 0]
    /\ recommendation = NoRecommendation
    /\ trendingCall = NoTrending
    /\ similarityCall = NoSimilarity
    /\ decisionCall = NoDecision

\* the stars a rating map holds in these calls
SimRatings == {MinRating, 3, MaxRating}

\* the rating maps: every set of resources, every choice of stars
SimMaps == UNION {[S -> SimRatings] : S \in SUBSET SimResources}

\* one call at a time
NextSim ==
    \/ /\ similarityCall.status = "none"
       /\ \E ratings1, ratings2 \in SimMaps : Cosine(ratings1, ratings2)
    \/ CosineEnd

SpecSim == InitPure /\ [][NextSim]_vars

TimeChoices == {1, 20, 30, 31, 59, 60, 89, 90, 120, 150}

\* module lists of up to two modules; the id of a module is its place
StudyModuleLists ==
    {<<>>} \cup {<<m>> : m \in StudyModules}
           \cup {<<m1, [m2 EXCEPT !.id = "b"]>> : m1 \in StudyModules, m2 \in StudyModules}

StudyRequests ==
    [mood : StudyMoods, energyLevel : RequestEnergyLevels,
     timeAvailable : TimeChoices, modules : StudyModuleLists]

LlmOutcomes == {"answers", "raises", "none"}

\* the longest time a _calculate_duration call is given
MaxTimeAvailable == 150

\* the activities of _determine_activity, and one it never gives
Activities == {"flashcards", "practice", "revise", "summary", "quiz"}

\* one request or one call at a time
NextStudy ==
    \/ /\ decisionCall.status = "none"
       /\ \E request \in StudyRequests, llm \in LlmOutcomes :
             GetRecommendation(request, llm)
    \/ /\ decisionCall.status = "none"
       /\ \E time_available \in 1..MaxTimeAvailable, energy_level \in EnergyLevels,
             activity \in Activities :
             CalculateDurationCall(time_available, energy_level, activity)
    \/ GetRecommendationEnd

SpecStudy == InitPure /\ [][NextStudy]_vars

(* ------------------------------ properties --------------------------- *)

\* rating documents of one (user, resource) pair, copies counted
RowsOf(user_id, resource_id) ==
    LET M == {d \in BagToSet(user_ratings) :
                d.user_id = user_id /\ d.resource_id = resource_id}
    IN  SumOver(M, [d \in M |-> CopiesIn(d, user_ratings)])

\* rating documents of one resource, copies counted
RowCount(resource_id) ==
    LET M == {d \in BagToSet(user_ratings) : d.resource_id = resource_id}
    IN  SumOver(M, [d \in M |-> CopiesIn(d, user_ratings)])

\* sum of the ratings of one resource
RowSum(resource_id) ==
    LET M == {d \in BagToSet(user_ratings) : d.resource_id = resource_id}
    IN  SumOver(M, [d \in M |-> d.rating * CopiesIn(d, user_ratings)])

\* users who have a rating document for the resource
Raters(resource_id) ==
    {d.user_id : d \in {c \in BagToSet(user_ratings) : c.resource_id = resource_id}}

\* a is the tenth nearest to sum / count, the even one of two equally near
NearestTenth(a, sum, count) ==
    LET diff == 10 * sum - a * count
        dist == IF diff < 0 THEN -diff ELSE diff
    IN  /\ 2 * dist <= count
        /\ 2 * dist = count => a % 2 = 0

\* the stored aggregates of a resource are those of its rating documents
AggregatesCurrent(id) ==
    /\ resources[id].rating_count = RowCount(id)
    /\ NearestTenth(resources[id].average_rating, RowSum(id), RowCount(id))

Succeeded(p) == pc[p] = "done" /\ result[p] = "success"

NoCallRunning == \A p \in Procs : pc[p] \in {"idle", "done"}

OutOfRange(rating) == rating < 1 \/ rating > 5

\* C1 (as stated): at most one rating document per (user, resource); once no
\* call is running, that document carries the rating of the last rate call
\* for the pair that returned success; rating_count never exceeds the number
\* of users who rated the resource.
C1_OneRowWithLastSuccessfulValue ==
    /\ \A u \in Users, r \in RatedIds : RowsOf(u, r) <= 1
    /\ NoCallRunning =>
          \A d \in BagToSet(user_ratings) :
              d.rating = lastRated[<<d.user_id, d.resource_id>>]
    /\ \A id \in DOMAIN resources :
          resources[id].rating_count <= Cardinality(Raters(id))

C3_CountIsRowCount ==
    \A p \in Procs :
        Succeeded(p) /\ call[p].resource_id \in DOMAIN resources =>
            /\ resources[call[p].resource_id].rating_count = RowCount(call[p].resource_id)
            /\ resources[call[p].resource_id].rating_count
                   = Cardinality(Raters(call[p].resource_id))

\* C3 witness: the third call was a re-rating by one of two raters and the
\* count stayed at two.
C3_Witness ==
    \E p \in Procs :
        /\ Succeeded(p)
        /\ calls = 3
        /\ call[p].resource_id \in DOMAIN resources
        /\ resources[call[p].resource_id].rating_count = 2
        /\ lastRated[<<call[p].user_id, call[p].resource_id>>] = call[p].rating
        /\ \A u \in Users, r \in RatedIds : r # call[p].resource_id => RowsOf(u, r) = 0

\* C4 (as stated): when two rate calls on the same resource have both
\* returned success, whatever the interleaving of their steps, the stored
\* aggregates of the resource are those of its rating documents.
C4_ConcurrentAggregatesCurrent ==
    \A p, q \in Procs :
        /\ p # q
        /\ Succeeded(p)
        /\ Succeeded(q)
        /\ call[p].resource_id = call[q].resource_id
        /\ call[p].resource_id \in DOMAIN resources
        => AggregatesCurrent(call[p].resource_id)

\* C5: a step of a rate call whose rating is below 1 or above 5 changes no
\* rating document and no resource, and the call ends with an error and
\* never gets past its entry.
C5_InvalidRatingMutatesNothing ==
    [][\A p \in Procs :
          LET rating == IF pc[p] = "idle" THEN call'[p].rating ELSE call[p].rating
          IN  pc'[p] # pc[p] /\ OutOfRange(rating) =>
                /\ user_ratings' = user_ratings
                /\ resources' = resources
                /\ pc'[p] \in {"idle", "done"}
                /\ pc'[p] = "done" =>
                      /\ result'[p] \in {"error_db", "error_rating"}
                      /\ HttpStatus(result'[p]) = 400]_vars

\* C5 witness: on a connected server one call with a rating below the range
\* and one with a rating above it have ended with the rating error.
C5_Witness ==
    /\ connected
    /\ \E p, q \in Procs :
          /\ pc[p] = "done" /\ result[p] = "error_rating" /\ call[p].rating < 1
          /\ pc[q] = "done" /\ result[q] = "error_rating" /\ call[q].rating > 5

\* C6 (as stated): when a rate call has ended, with success or with an
\* error, and its rating document is stored, the aggregates of the rated
\* resource reflect it.
C6_NoStaleAggregateAfterRate ==
    \A p \in Procs :
        /\ pc[p] = "done"
        /\ call[p].resource_id \in DOMAIN resources
        /\ CopiesIn(call[p], user_ratings) > 0
        => AggregatesCurrent(call[p].resource_id)

\* C7: a step of a rate call that needs the store while the store is
\* unavailable (no database handle at entry, or a request to a server that
\* does not answer) ends the call with a failure the caller sees and leaves
\* the rating documents and the resources as they were.
C7_UnavailableStoreFails ==
    [][\A p \in Procs :
          /\ pc'[p] # pc[p]
          /\ \/ pc[p] = "idle" /\ ~connected
             \/ pc[p] \in {"upsert", "aggregate", "write"} /\ ~storeUp
          => /\ pc'[p] = "done"
             /\ result'[p] \in {"error_db", "raised"}
             /\ HttpStatus(result'[p]) >= 400
             /\ user_ratings' = user_ratings
             /\ resources' = resources]_vars

\* C7 witness: a call met a server that did not answer at its upsert; it
\* raised and its pair has no rating document.
C7_Witness ==
    \E p \in Procs :
        /\ pc[p] = "done"
        /\ result[p] = "raised"
        /\ ~storeUp
        /\ RowsOf(call[p].user_id, call[p].resource_id) = 0

\* C8 (as stated): a rate call that returns success has written the
\* aggregates of the resource document whose id is its resource_id, and no
\* step of a call changes another resource or the rating document of
\* another (user, resource) pair.
C8_SuccessUpdatesExactlyOneResource ==
    [][\A p \in Procs :
          pc'[p] # pc[p] /\ pc[p] # "idle" =>
            /\ result'[p] = "success" =>
                  /\ call[p].resource_id \in DOMAIN resources
                  /\ AggregatesCurrent(call[p].resource_id)'
            /\ \A id \in DOMAIN resources :
                  id # call[p].resource_id => resources'[id] = resources[id]
            /\ \A d \in BagToSet(user_ratings) \cup BagToSet(user_ratings') :
                  d.user_id # call[p].user_id \/ d.resource_id # call[p].resource_id
                      => CopiesIn(d, user_ratings') = CopiesIn(d, user_ratings)]_vars

\* the resources a user has rated
RatedBy(user_id) ==
    {d.resource_id : d \in {c \in BagToSet(user_ratings) : c.user_id = user_id}}

Returned == recommendation.status = "returned"

\* C9: a list recommend returns holds no resource its user has rated.
C9_NeverRecommendsRated ==
    Returned =>
        \A i \in 1..Len(recommendation.items) :
            recommendation.items[i].id \notin RatedBy(recommendation.user_id)

\* C9 witness: the user has three ratings, one of the rated resources is
\* trending, and the list holds a collaborative entry.
C9_Witness ==
    /\ Returned
    /\ Cardinality(RatedBy(recommendation.user_id)) >= 3
    /\ RatedBy(recommendation.user_id) \cap TrendingGroups(user_ratings, now) # {}
    /\ \E i \in 1..Len(recommendation.items) :
          recommendation.items[i].recommendation_type = "collaborative"

\* C10: a list recommend returns holds no resource id twice.
C10_NoDuplicateIds ==
    Returned =>
        \A i, j \in 1..Len(recommendation.items) :
            i # j => recommendation.items[i].id # recommendation.items[j].id

\* C10 witness: a resource all three sources offered is in the list, with
\* another entry beside it.
C10_Witness ==
    /\ Returned
    /\ Len(recommendation.items) >= 2
    /\ recommendation.module_id # None
    /\ \E i \in 1..Len(recommendation.items) :
          /\ recommendation.items[i].recommendation_type = "collaborative"
          /\ recommendation.items[i].id \in TrendingGroups(user_ratings, now)
          /\ resources[recommendation.items[i].id].module_id = recommendation.module_id

\* C11: a list recommend returns is in non-increasing order of
\* recommendation_score (0 for an entry without one) and has at most limit
\* entries.
C11_SortedAndTruncated ==
    Returned =>
        /\ Len(recommendation.items) <= recommendation.limit
        /\ \A i \in 1..(Len(recommendation.items) - 1) :
              SortKey(recommendation.items[i]) >= SortKey(recommendation.items[i + 1])

\* C11 witness: the list is cut to its limit, and the sources offered a
\* lower score before a higher one.
C11_Witness ==
    /\ Returned
    /\ recommendation.limit > 0
    /\ Len(recommendation.items) = recommendation.limit
    /\ \E l \in Gathered(user_ratings, resources, recommendation.user_id,
                         recommendation.module_id) :
          /\ Len(l) > recommendation.limit
          /\ \E i \in 1..(Len(l) - 1) : SortKey(l[i]) < SortKey(l[i + 1])
          /\ recommendation.items \in
                Recommendations(user_ratings, resources, now, l,
                                recommendation.user_id, recommendation.module_id,
                                recommendation.limit)

\* the trending endpoint has answered with a list
TrendingReturned == trendingCall.status = "returned"

\* the ratings of a resource in the window of the trending call
TrendingCallGroup(id) ==
    RecentGroup(user_ratings, trendingCall.week_ago + TrendingWindowDays, id)

\* whether the ratings of a resource updated in the last 7 days average
\* below 3.5
RecentAverageLow(id) ==
    LET g == TrendingCallGroup(id)
    IN  g.recent_ratings > 0 /\ 10 * g.sum < TrendingMinAverage * g.recent_ratings

\* C12: no resource trending returns has an average below 3.5 over its
\* ratings of the last 7 days.
C12_TrendingNeverBelowMinAverage ==
    TrendingReturned =>
        \A i \in 1..Len(trendingCall.items) : ~RecentAverageLow(trendingCall.items[i].id)

\* C12 witness: trending returned a resource while leaving out one with
\* more recent ratings, a low recent average, and room left under the limit.
C12_Witness ==
    /\ TrendingReturned
    /\ trendingCall.module_id = None
    /\ Len(trendingCall.items) > 0
    /\ Len(trendingCall.items) < trendingCall.limit
    /\ \E id \in DOMAIN resources :
          /\ RecentAverageLow(id)
          /\ \A i \in 1..Len(trendingCall.items) :
                TrendingCallGroup(id).recent_ratings
                    > TrendingCallGroup(trendingCall.items[i].id).recent_ratings

\* C13: when the store fails at the trending call of recommend, recommend
\* still returns the collaborative and content-based entries it gathered,
\* deduplicated, sorted and cut to the limit.
C13_TrendingFailureKeepsGathered ==
    [][(recommendation.status = "gathered" /\ ~storeUp
            /\ recommendation' # recommendation)
        => /\ recommendation'.status = "returned"
           /\ recommendation'.items = Merge(recommendation.items, recommendation.limit)]_vars

\* a _cosine_similarity call has returned
SimilarityReturned == similarityCall.status = "returned"

\* the resources both rating maps of the call hold
CommonItems == DOMAIN similarityCall.ratings1 \cap DOMAIN similarityCall.ratings2

\* C14: the similarity of two rating maps that share fewer than 2
\* resources is 0, whatever the ratings are.
C14_ZeroBelowTwoCommon ==
    (SimilarityReturned /\ Cardinality(CommonItems) < 2)
        => similarityCall.value = FloatZero

\* C14 witness: two maps of two or more ratings share exactly one
\* resource, rated the same in both, and the similarity is 0.
C14_Witness ==
    /\ SimilarityReturned
    /\ Cardinality(DOMAIN similarityCall.ratings1) >= 2
    /\ Cardinality(DOMAIN similarityCall.ratings2) >= 2
    /\ \E i \in CommonItems :
          /\ CommonItems = {i}
          /\ similarityCall.ratings1[i] = similarityCall.ratings2[i]
    /\ similarityCall.value = FloatZero

\* C15: the similarity of a and b is the similarity of b and a.
C15_Symmetric ==
    SimilarityReturned =>
        similarityCall.value = CosineSimilarityFloat(similarityCall.ratings2,
                                                     similarityCall.ratings1)

\* C15 witness: two maps that differ on the resources they share and on
\* the resources they hold, with a similarity that is not 0.
C15_Witness ==
    /\ SimilarityReturned
    /\ Cardinality(CommonItems) >= 2
    /\ DOMAIN similarityCall.ratings1 # DOMAIN similarityCall.ratings2
    /\ \E i \in CommonItems : similarityCall.ratings1[i] # similarityCall.ratings2[i]
    /\ similarityCall.value # FloatZero

\* C16: the similarity of a map of 2 or more ratings with itself is
\* exactly 1.0, and every similarity lies in [0, 1].
C16_SelfSimilarityOneAndUnitRange ==
    SimilarityReturned =>
        /\ (similarityCall.ratings1 = similarityCall.ratings2
              /\ Cardinality(CommonItems) >= 2)
                => similarityCall.value = FloatOne
        /\ ~FloatLess(FloatOne, similarityCall.value)
        /\ ~FloatLess(similarityCall.value, FloatZero)

\* get_recommendation has returned a decision
DecisionReturned == decisionCall.status = "returned"

\* C17: a request with exactly one module gets the confidence 0.8, whatever
\* its mood, energy level, time and module are.
C17_SingleModuleConfidence ==
    (DecisionReturned /\ Len(decisionCall.request.modules) = 1)
        => decisionCall.confidence = Float08

\* C17 witness: a decision for a lone hard module with an exam ahead, asked
\* in a low mood with little energy.
C17_Witness ==
    /\ DecisionReturned
    /\ Len(decisionCall.request.modules) = 1
    /\ decisionCall.request.modules[1].difficulty = 9
    /\ decisionCall.request.modules[1].examDays # Absent
    /\ decisionCall.request.mood = "low"
    /\ decisionCall.request.energyLevel = 1
    /\ decisionCall.confidence = Float08

\* C18: every suggested duration, for a time above 0, an energy level of
\* 1..10 and any activity, is a multiple of 5 and at least 15 minutes.
C18_DurationMultipleOfFiveAtLeast15 ==
    decisionCall.status \in {"returned", "duration"} =>
        /\ decisionCall.suggestedDuration % 5 = 0
        /\ decisionCall.suggestedDuration >= 15

\* C18 witness: less than 15 minutes are available, the energy is low, and
\* the suggestion is 15 minutes.
C18_Witness ==
    /\ decisionCall.status = "duration"
    /\ decisionCall.request.timeAvailable < 15
    /\ decisionCall.request.energyLevel <= 4
    /\ decisionCall.recommendedActivity = "practice"
    /\ decisionCall.suggestedDuration = 15

\* C19: with mood high, energy level 8 and 90 minutes the activity is
\* practice and the suggested duration is between 90 and 100 minutes.
C19_HighEnergyScenarioDuration ==
    (DecisionReturned /\ decisionCall.request.mood = "high"
                      /\ decisionCall.request.energyLevel = 8
                      /\ decisionCall.request.timeAvailable = 90)
        => /\ decisionCall.recommendedActivity = "practice"
           /\ decisionCall.suggestedDuration >= 90
           /\ decisionCall.suggestedDuration <= 100

\* C20: the activity follows from the energy level and the time alone,
\* first match wins: flashcards for energy <= 4 or time <= 30, else
\* practice for energy >= 7 and time >= 90, else revise for time >= 60,
\* else summary.
C20_ActivityByOrderedRules ==
    DecisionReturned =>
        LET energy == decisionCall.request.energyLevel
            time == decisionCall.request.timeAvailable
        IN  decisionCall.recommendedActivity =
                CASE energy <= 4 \/ time <= 30 -> "flashcards"
                  [] energy > 4 /\ time > 30 /\ energy >= 7 /\ time >= 90 -> "practice"
                  [] energy > 4 /\ time > 30 /\ ~(energy >= 7 /\ time >= 90)
                       /\ time >= 60 -> "revise"
                  [] OTHER -> "summary"

\* C20 witness: energy level 2 and 20 minutes give flashcards, in a high
\* mood and with two modules to choose from.
C20_Witness ==
    /\ DecisionReturned
    /\ decisionCall.request.energyLevel = 2
    /\ decisionCall.request.timeAvailable = 20
    /\ decisionCall.request.mood = "high"
    /\ Len(decisionCall.request.modules) = 2
    /\ decisionCall.recommendedActivity = "flashcards"

\* a get_recommendation call has ended, with a decision or an exception
DecisionEnded == decisionCall.status \in {"returned", "raised"}

\* C21: for a request with at least one module, when the provider's call
\* fails or no provider is configured, get_recommendation returns a
\* decision (module, activity, duration, confidence) whose explanation is
\* the substituted text.
C21_LlmFailureNotPropagated ==
    (DecisionEnded /\ Len(decisionCall.request.modules) >= 1
                   /\ decisionCall.llm \in {"raises", "none"})
        => /\ decisionCall.status = "returned"
           /\ decisionCall.explanation = "fallback"
           /\ \E i \in 1..Len(decisionCall.request.modules) :
                 decisionCall.recommendedModule = decisionCall.request.modules[i].id
           /\ decisionCall.recommendedActivity # None
           /\ decisionCall.suggestedDuration > 0
           /\ decisionCall.confidence # FloatZero

\* C21 witness: the provider's call raised during a request with two
\* modules, and the decision carries the substituted explanation.
C21_Witness ==
    /\ DecisionReturned
    /\ decisionCall.llm = "raises"
    /\ Len(decisionCall.request.modules) = 2
    /\ decisionCall.explanation = "fallback"

\* the scores of the modules of the request, in the order of its list
RequestScores ==
    [i \in 1..Len(decisionCall.request.modules) |->
        ModuleScore(decisionCall.request.modules[i], decisionCall.request)]

\* the highest score of a request of two modules, and the other one
TopScore ==
    IF FloatLess(RequestScores[1], RequestScores[2]) THEN RequestScores[2]
    ELSE RequestScores[1]

SecondScore ==
    IF FloatLess(RequestScores[1], RequestScores[2]) THEN RequestScores[1]
    ELSE RequestScores[2]

\* C22: for a request with two modules the confidence lies in [0, 1]; it
\* is min(0.95, 0.6 + 0.35 * (top_score - second_score) / top_score) as
\* binary64 computes it, and 0.5 when top_score is 0.
C22_ConfidenceInUnitRange ==
    (DecisionReturned /\ Len(decisionCall.request.modules) = 2)
        => /\ ~FloatLess(decisionCall.confidence, FloatZero)
           /\ ~FloatLess(FloatOne, decisionCall.confidence)
           /\ decisionCall.confidence = ConfidenceOfScores(TopScore, SecondScore)
           /\ TopScore = FloatZero => decisionCall.confidence = FloatHalf
           /\ TopScore # FloatZero =>
                 /\ ~FloatLess(decisionCall.confidence, Float06)
                 /\ ~FloatLess(Float095, decisionCall.confidence)

\* C22 witness: two modules of different scores, an energy level within
\* 1..10, and a confidence strictly between 0.6 and 0.95.
C22_Witness ==
    /\ DecisionReturned
    /\ Len(decisionCall.request.modules) = 2
    /\ decisionCall.request.energyLevel \in EnergyLevels
    /\ FloatLess(SecondScore, TopScore)
    /\ FloatLess(Float06, decisionCall.confidence)
    /\ FloatLess(decisionCall.confidence, Float095)

\* C23: the recommended module has a score no module of the request
\* exceeds, and no module before it in the list has the same score.
C23_MaxScoreFirstOnTies ==
    DecisionReturned =>
        \E i \in 1..Len(decisionCall.request.modules) :
            /\ decisionCall.recommendedModule = decisionCall.request.modules[i].id
            /\ \A j \in 1..Len(decisionCall.request.modules) :
                  /\ ~FloatLess(RequestScores[i], RequestScores[j])
                  /\ j < i => RequestScores[j] # RequestScores[i]

\* C23 witness: two modules with the same score, which is not 0, and the
\* first of the list is recommended.
C23_Witness ==
    /\ DecisionReturned
    /\ Len(decisionCall.request.modules) = 2
    /\ RequestScores[1] = RequestScores[2]
    /\ RequestScores[1] # FloatZero
    /\ decisionCall.recommendedModule = decisionCall.request.modules[1].id

\* the entries the collaborative and the content-based source offer the
\* user of the request; every list of Gathered holds the same entries
GatheredEntries ==
    UNION {Range(l) : l \in Gathered(user_ratings, resources, recommendation.user_id,
                                     recommendation.module_id)}

\* the entry the sources give a resource, the first of collaborative,
\* content-based and trending that offers it
FirstSourceEntry(id) ==
    LET cf == {r \in GatheredEntries :
                 r.id = id /\ r.recommendation_type = "collaborative"}
        cb == {r \in GatheredEntries : r.id = id /\ r.recommendation_type = "content"}
    IN  IF cf # {} THEN cf
        ELSE IF cb # {} THEN cb
        ELSE {Entry(resources, id, Absent, "trending")}

\* C24: the entry recommend returns for a resource is the one of the first
\* source that offers it, in the order collaborative, content-based,
\* trending, with that source's recommendation_type and score.
C24_FirstSourceWins ==
    Returned =>
        \A i \in 1..Len(recommendation.items) :
            recommendation.items[i] \in FirstSourceEntry(recommendation.items[i].id)

\* C24 witness: a returned resource that the collaborative and the
\* content-based source both offer, with different scores, and that is
\* trending as well.
C24_Witness ==
    /\ Returned
    /\ \E i \in 1..Len(recommendation.items) :
          /\ recommendation.items[i].recommendation_type = "collaborative"
          /\ recommendation.items[i].id \in TrendingGroups(user_ratings, now)
          /\ \E r \in GatheredEntries :
                /\ r.id = recommendation.items[i].id
                /\ r.recommendation_type = "content"
                /\ r.recommendation_score # recommendation.items[i].recommendation_score

\* the rating documents of the user of the request
RequestUserRatingCount ==
    CountOf(user_ratings, OfUser(user_ratings, recommendation.user_id))

\* C25: a recommend call for a user with fewer than 3 ratings, once the
\* store has answered the trending call, returns a list without a
\* collaborative entry; without a module_id the list holds trending
\* entries only, and it is empty when no rating is recent.
C25_FewRatingsNoCollaborative ==
    [][(recommendation.status = "gathered" /\ recommendation' # recommendation
            /\ storeUp /\ RequestUserRatingCount < MinRatingsForRecommendation)
        => /\ recommendation'.status = "returned"
           /\ \A i \in 1..Len(recommendation'.items) :
                 /\ recommendation'.items[i].recommendation_type # "collaborative"
                 /\ recommendation.module_id = None
                      => recommendation'.items[i].recommendation_type = "trending"
           /\ (recommendation.module_id = None
                  /\ RecentRatings(user_ratings, now) = {})
                => recommendation'.items = <<>>]_vars

\* C25 witness: u1 has one or two ratings, u2 gave 5 stars to a resource u1
\* has not rated, and a request of u1 without a module has returned an
\* empty list: the ratings of u2 were no longer recent.
C25_Witness ==
    /\ Returned
    /\ recommendation.user_id = "u1"
    /\ recommendation.module_id = None
    /\ recommendation.limit > 0
    /\ RequestUserRatingCount \in 1..2
    /\ \E d \in BagToSet(user_ratings) :
          /\ d.user_id = "u2" /\ d.rating = 5
          /\ d.resource_id \in DOMAIN resources
          /\ d.resource_id \notin RatedBy("u1")
    /\ recommendation.items = <<>>

\* the users _find_similar_users returns for the user of the request: any
\* other user above the threshold whom fewer than 10 such users outrank
RequestNeighbours ==
    LET uid == recommendation.user_id
        S == {o \in Users \ {uid} :
                SimilarityTo(user_ratings, uid, o) > SimilarityThreshold}
    IN  {o \in S : Cardinality({p \in S : SimilarityTo(user_ratings, uid, p)
                                           > SimilarityTo(user_ratings, uid, o)})
                     < TopSimilarUsers}

\* the neighbours of the request that gave the resource 4 stars or more
Endorsers(id) ==
    {o \in RequestNeighbours :
        /\ id \in DOMAIN RatingMap(user_ratings, o)
        /\ RatingMap(user_ratings, o)[id] >= 4}

\* C26: every collaborative entry of a returned list is a resource some
\* neighbour of the user (another user, similarity above 0.3, among the 10
\* most similar) gave 4 stars or more, and its score is the mean of
\* rating * similarity over those neighbours alone: a neighbour's rating
\* below 4 adds nothing to the sum or the count.
C26_CollaborativeNeedsEndorser ==
    Returned =>
        \A i \in 1..Len(recommendation.items) :
            LET e == recommendation.items[i]
                E == Endorsers(e.id)
                w == [o \in E |-> RatingMap(user_ratings, o)[e.id]
                                  * SimilarityTo(user_ratings,
                                                 recommendation.user_id, o)]
            IN  e.recommendation_type = "collaborative"
                  => /\ E # {}
                     /\ recommendation.user_id \notin E
                     /\ e.recommendation_score = SumOver(E, w) \div Cardinality(E)

\* C26 witness: a returned collaborative entry that one neighbour gave 4
\* stars or more and another neighbour gave less
C26_Witness ==
    /\ Returned
    /\ \E i \in 1..Len(recommendation.items) :
          LET e == recommendation.items[i]
          IN  /\ e.recommendation_type = "collaborative"
              /\ Endorsers(e.id) # {}
              /\ \E o \in RequestNeighbours \ Endorsers(e.id) :
                    /\ e.id \in DOMAIN RatingMap(user_ratings, o)
                    /\ RatingMap(user_ratings, o)[e.id] < 4

\* the day of the trending call
TrendingCallDay == trendingCall.week_ago + TrendingWindowDays

\* the resources the trending call could have returned: a document, of the
\* module asked for, in a group that passed the 3.5 filter
TrendingQualifying ==
    {id \in DOMAIN resources :
        /\ id \in TrendingGroups(user_ratings, TrendingCallDay)
        /\ ModuleMatches(resources[id], trendingCall.module_id)}

\* C27: trending returns at most limit resources, in the order of
\* (recent count, recent average) descending, and leaves out no qualifying
\* resource that ranks above a returned one.
C27_TrendingTopInRankOrder ==
    (TrendingReturned /\ connected) =>
        LET ids == [i \in 1..Len(trendingCall.items) |-> trendingCall.items[i].id]
            returned == {ids[i] : i \in 1..Len(ids)}
        IN  /\ Len(ids) <= Max(trendingCall.limit, 0)
            /\ \A i, j \in 1..Len(ids) :
                  i < j => ~RanksBefore(user_ratings, TrendingCallDay, ids[j], ids[i])
            /\ \A x \in TrendingQualifying \ returned, y \in returned :
                  ~RanksBefore(user_ratings, TrendingCallDay, x, y)

\* C28: with ratings from 1 to 5 the similarity of two rating maps that
\* share 2 or more resources is above 0.3, so the threshold test fails
\* exactly for the maps that share fewer than 2.
C28_ThresholdExcludesOnlyBelowTwoCommon ==
    SimilarityReturned =>
        /\ Cardinality(CommonItems) >= 2 => FloatLess(Float03, similarityCall.value)
        /\ similarityCall.similar <=> Cardinality(CommonItems) >= 2

\* C28 witness: two maps share two resources with opposite ratings, 1 and 5
\* against 5 and 1, and the value, below 0.5, passes the test.
C28_Witness ==
    /\ SimilarityReturned
    /\ \E i, j \in CommonItems :
          /\ CommonItems = {i, j} /\ i # j
          /\ similarityCall.ratings1[i] = MinRating
          /\ similarityCall.ratings2[i] = MaxRating
          /\ similarityCall.ratings1[j] = MaxRating
          /\ similarityCall.ratings2[j] = MinRating
    /\ FloatLess(similarityCall.value, FloatHalf)
    /\ similarityCall.similar

\* C29: for an energy level of 1..10, any activity and 15 minutes or more
\* available, the suggested duration exceeds neither the time available
\* nor 120 minutes.
C29_DurationWithinTimeAndCap ==
    (/\ decisionCall.status \in {"returned", "duration"}
     /\ decisionCall.request.energyLevel \in EnergyLevels
     /\ decisionCall.request.timeAvailable >= 15)
        => /\ decisionCall.suggestedDuration <= decisionCall.request.timeAvailable
           /\ decisionCall.suggestedDuration <= 120

\* C30: every get_recommendation call ends by returning a decision, the
\* call with an empty module list included: its module is one of the
\* request's, or the list was empty.
C30_DecisionForEveryRequest ==
    DecisionEnded =>
        /\ decisionCall.status = "returned"
        /\ decisionCall.recommendedActivity \in Activities
        /\ \/ decisionCall.request.modules = <<>>
           \/ \E i \in 1..Len(decisionCall.request.modules) :
                 decisionCall.recommendedModule = decisionCall.request.modules[i].id

=============================================================================
